---- MODULE Spec2Model ----
(***************************************************************************)
(* Model of the Qdrant vectorstore builder, src/app/build_vectorstore.py:  *)
(* the loaders, doc_key, chunk_text, upsert_points_in_batches,             *)
(* sync_vectorstore and main, run against a vector index and an embedding  *)
(* model whose calls may each fail.                                        *)
(*                                                                         *)
(* Python strings are sequences of one-character strings, Python dicts are *)
(* sequences of [k, v] entries in insertion order, Python lists are        *)
(* sequences.  A Document is [text, metadata]; metadata and payloads are   *)
(* records whose DOMAIN is the set of keys that are present.               *)
(***************************************************************************)
EXTENDS Integers, Sequences, FiniteSets, TLC

\* ------------------------------------------------------------------ bounds
\* Files in the docs/ directory of one run.
MaxFiles == 2
\* Invocations of main() in one behaviour (ids grow without bound otherwise).
MaxRuns == 3
\* Longest point list and largest batch size of the batching harness.
MaxPoints == 5
MaxBatch == 3
\* Longest text given to chunk_text on its own, and largest chunk size.
MaxLen == 5
MaxChunk == 3
\* Most files in a docs/ directory given to the loading loop on its own.
MaxLoadFiles == 3
MaxAgreeDocs == 3

\* --------------------------------------------------------------- constants
\* CHUNK_SIZE = 500 and BATCH_SIZE = 200 in the source, and the scroll limit
\* is 50_000; the model keeps their roles and scales the values down so that
\* multi-chunk documents, multi-batch uploads and collections larger than the
\* scan window occur within the bounds.
CHUNK_SIZE == 2
BATCH_SIZE == 2
SCROLL_LIMIT == 2

COLLECTION_NAME == "island_docs"

\* ----------------------------------------------------------------- strings
Whitespace == {" ", "\n", "\t"}

DigitChars == <<"0", "1", "2", "3", "4", "5", "6", "7", "8", "9">>

\* str(n) of a Python int, as f"{n}" formats it.
RECURSIVE str(_)
str(n) ==
    IF n < 0 THEN <<"-">> \o str(-n)
    ELSE IF n < 10 THEN <<DigitChars[n + 1]>>
    ELSE str(n \div 10) \o <<DigitChars[(n % 10) + 1]>>

\* The characters of the two metadata key names used as key suffixes.
SuffixChars(suffix) ==
    IF suffix = "row_index"
    THEN <<"r", "o", "w", "_", "i", "n", "d", "e", "x">>
    ELSE <<"j", "s", "o", "n", "_", "i", "n", "d", "e", "x">>

\* A suffix that leaves the name of the index out.
KeySuffix_without_name(suffix, value) == <<"#", ":">> \o str(value)

\* f"#{suffix}:{value}"
KeySuffix(suffix, value) == <<"#">> \o SuffixChars(suffix) \o <<":">> \o str(value)

\* s[a:b] of a Python sequence, 0 <= a.
Slice(s, a, b) == SubSeq(s, a + 1, IF b < Len(s) THEN b ELSE Len(s))

\* list(range(start, stop, step)), step > 0.
RECURSIVE Range(_, _, _)
Range(start, stop, step) ==
    IF start >= stop THEN <<>> ELSE <<start>> \o Range(start + step, stop, step)

\* Length of the longest whitespace-free prefix of s.
RECURSIVE WordLen(_)
WordLen(s) ==
    IF s = <<>> \/ Head(s) \in Whitespace THEN 0 ELSE 1 + WordLen(Tail(s))

\* text.split(): the maximal runs of non-whitespace characters.
RECURSIVE split(_)
split(s) ==
    IF s = <<>> THEN <<>>
    ELSE IF Head(s) \in Whitespace THEN split(Tail(s))
    ELSE <<SubSeq(s, 1, WordLen(s))>> \o split(SubSeq(s, WordLen(s) + 1, Len(s)))

\* " ".join(words)
RECURSIVE join(_)
join(words) ==
    IF words = <<>> THEN <<>>
    ELSE IF Len(words) = 1 THEN words[1]
    ELSE words[1] \o <<" ">> \o join(Tail(words))

\* text.strip() is non-empty.
HasText(text) == \E j \in DOMAIN text : text[j] \notin Whitespace

\* ------------------------------------------------------------- chunk_text
\* A chunker that drops a last chunk shorter than chunk_size.
chunk_text_full_chunks_only(text, chunk_size) ==
    LET words == split(text)
        starts == Range(0, Len(words) - chunk_size + 1, chunk_size)
    IN  [n \in DOMAIN starts |-> join(Slice(words, starts[n], starts[n] + chunk_size))]

\* A chunker that yields the text itself when it holds no token.
chunk_text_blank_as_one_chunk(text, chunk_size) ==
    LET words == split(text)
        starts == Range(0, Len(words), chunk_size)
    IN  IF words = <<>> THEN <<text>>
        ELSE [n \in DOMAIN starts |-> join(Slice(words, starts[n], starts[n] + chunk_size))]

\* list(chunk_text(text, chunk_size))
chunk_text(text, chunk_size) ==
    LET words == split(text)
        starts == Range(0, Len(words), chunk_size)
    IN  [n \in DOMAIN starts |-> join(Slice(words, starts[n], starts[n] + chunk_size))]

\* ------------------------------------------------------------------ dicts
DictKeys(d) == {d[j].k : j \in DOMAIN d}
DictValues(d) == {d[j].v : j \in DOMAIN d}
DictHas(d, key) == key \in DictKeys(d)
DictGet(d, key) == d[CHOOSE j \in DOMAIN d : d[j].k = key].v
\* d[key] = value: a present key keeps its place, a new key goes last.
DictPut(d, key, value) ==
    IF DictHas(d, key)
    THEN [j \in DOMAIN d |-> IF d[j].k = key THEN [k |-> key, v |-> value] ELSE d[j]]
    ELSE Append(d, [k |-> key, v |-> value])

\* max(values, default=0)
MaxOr0(S) == IF S = {} THEN 0 ELSE CHOOSE m \in S : \A x \in S : x <= m

\* ---------------------------------------------------------------- doc_key
\* A key that takes the first suffix present and stops.
doc_key_first_suffix_only(doc) ==
    IF "row_index" \in DOMAIN doc.metadata
    THEN doc.metadata.source \o KeySuffix("row_index", doc.metadata.row_index)
    ELSE IF "json_index" \in DOMAIN doc.metadata
         THEN doc.metadata.source \o KeySuffix("json_index", doc.metadata.json_index)
         ELSE doc.metadata.source

doc_key(doc) ==
    LET key0 == doc.metadata.source
        key1 == IF "row_index" \in DOMAIN doc.metadata
                THEN key0 \o KeySuffix("row_index", doc.metadata.row_index)
                ELSE key0
    IN  IF "json_index" \in DOMAIN doc.metadata
        THEN key1 \o KeySuffix("json_index", doc.metadata.json_index)
        ELSE key1

\* A scan that reads the row_index of a payload only.
payload_key_row_index_only(payload) ==
    LET key0 == IF "source" \in DOMAIN payload THEN payload.source ELSE <<>>
    IN  IF "row_index" \in DOMAIN payload
        THEN key0 \o KeySuffix("row_index", payload.row_index)
        ELSE key0

\* The key sync_vectorstore derives from a scanned point's payload.
payload_key(payload) ==
    LET key0 == IF "source" \in DOMAIN payload THEN payload.source ELSE <<>>
        key1 == IF "row_index" \in DOMAIN payload
                THEN key0 \o KeySuffix("row_index", payload.row_index)
                ELSE key0
    IN  IF "json_index" \in DOMAIN payload
        THEN key1 \o KeySuffix("json_index", payload.json_index)
        ELSE key1

\* ---------------------------------------------------------------- loaders
\* A file of docs/ is [name, suffix, broken, shape, texts]: `suffix` is
\* file.suffix.lower(), `broken` says that opening or parsing it raises,
\* `texts` holds the extracted text (one entry), the rendered rows of a CSV or
\* the flattened items of a JSON array, and `shape` is the JSON top-level type.
Document(text, metadata) == [text |-> text, metadata |-> metadata]

load_pdf(file) ==
    IF file.broken THEN <<>>
    ELSE IF HasText(file.texts[1])
         THEN <<Document(file.texts[1], [source |-> file.name])>>
         ELSE <<>>

\* pd.read_csv is not guarded: a broken CSV raises out of the loader.
csv_raises(file) == file.suffix = ".csv" /\ file.broken

load_csv_rows(file) ==
    LET rows == SelectSeq([n \in DOMAIN file.texts |-> [i |-> n - 1, text |-> file.texts[n]]],
                          LAMBDA row : HasText(row.text))
    IN  [n \in DOMAIN rows |->
            Document(rows[n].text, [source |-> file.name, row_index |-> rows[n].i])]

load_text_file(file) ==
    IF file.broken THEN <<>>
    ELSE IF HasText(file.texts[1])
         THEN <<Document(file.texts[1], [source |-> file.name])>>
         ELSE <<>>

\* No emptiness test here: a DOCX without text yields a Document with text "".
load_docx(file) ==
    IF file.broken THEN <<>>
    ELSE <<Document(file.texts[1], [source |-> file.name])>>

load_json(file) ==
    IF file.broken THEN <<>>
    ELSE IF file.shape = "list"
         THEN [n \in DOMAIN file.texts |->
                 Document(file.texts[n], [source |-> file.name, json_index |-> n - 1])]
    ELSE IF file.shape = "dict"
         THEN <<Document(file.texts[1], [source |-> file.name])>>
    ELSE <<>>

\* The dispatch on the suffix in main's loading loop.
load_file(file) ==
    IF file.suffix = ".pdf" THEN load_pdf(file)
    ELSE IF file.suffix \in {".txt", ".md"} THEN load_text_file(file)
    ELSE IF file.suffix = ".docx" THEN load_docx(file)
    ELSE IF file.suffix = ".csv" THEN load_csv_rows(file)
    ELSE IF file.suffix = ".json" THEN load_json(file)
    ELSE <<>>

\* all_docs after the loading loop over DOCS_DIR.iterdir().
RECURSIVE load_all(_)
load_all(dir) ==
    IF dir = <<>> THEN <<>> ELSE load_file(Head(dir)) \o load_all(Tail(dir))

load_raises(dir) == \E n \in DOMAIN dir : csv_raises(dir[n])

\* --------------------------------------------------- the docs/ directories
\* One chunk, two chunks (the last one short), and no chunk at all.
TextOne == <<"x">>
TextTwo == <<"x", " ", " ", "y", "\n", "z">>
TextBlank == <<" ">>

File(name, suffix, broken, shape, texts) ==
    [name |-> name, suffix |-> suffix, broken |-> broken, shape |-> shape, texts |-> texts]

\* The files a docs/ directory is drawn from: a text file "a" (two chunks,
\* blank or unreadable), a DOCX "b" (without text, blank, or one chunk) and a CSV "c"
\* (one row, or unparsable).
FileUniverse ==
    { File(<<"a">>, ".txt", FALSE, "none", <<TextTwo>>),
      File(<<"a">>, ".txt", FALSE, "none", <<TextBlank>>),
      File(<<"a">>, ".txt", TRUE, "none", <<TextTwo>>),
      File(<<"b">>, ".docx", FALSE, "none", <<<<>>>>),
      File(<<"b">>, ".docx", FALSE, "none", <<TextBlank>>),
      File(<<"b">>, ".docx", FALSE, "none", <<TextOne>>),
      File(<<"c">>, ".csv", FALSE, "none", <<TextOne>>),
      File(<<"c">>, ".csv", TRUE, "none", <<TextOne>>) }

\* Directory listings: at most MaxFiles files with distinct names, any order.
Dirs ==
    UNION { { d \in [1..n -> FileUniverse] :
                \A a, b \in 1..n : a # b => d[a].name # d[b].name } : n \in 0..MaxFiles }

\* ------------------------------------------------- embedding model, points
\* embed_model.get_text_embedding(text): a fixed function of the text.
get_text_embedding(text) == [of |-> text]

ProbeText == <<"t", "e", "s", "t">>

PointStruct(id, vector, payload) == [id |-> id, vector |-> vector, payload |-> payload]

\* {"text": chunk, **doc.metadata}: a metadata key wins over "text".
Payload(chunk, metadata) == metadata @@ [text |-> chunk]

\* The (document, chunk) pairs of the nested loops over docs and their chunks.
RECURSIVE doc_chunks(_)
doc_chunks(docs) ==
    IF docs = <<>> THEN <<>>
    ELSE LET chunks == chunk_text(Head(docs).text, CHUNK_SIZE)
         IN  [n \in DOMAIN chunks |-> [doc |-> Head(docs), chunk |-> chunks[n]]]
             \o doc_chunks(Tail(docs))

\* Points built without the document's metadata in the payload.
RECURSIVE build_points_text_only(_, _)
build_points_text_only(pairs, next_id) ==
    IF pairs = <<>> THEN <<>>
    ELSE <<PointStruct(next_id, get_text_embedding(Head(pairs).chunk),
                       [text |-> Head(pairs).chunk, source |-> Head(pairs).doc.metadata.source])>>
         \o build_points_text_only(Tail(pairs), next_id + 1)

\* The points the loops append: one per pair, the id counter advancing by one.
RECURSIVE build_points(_, _)
build_points(pairs, next_id) ==
    IF pairs = <<>> THEN <<>>
    ELSE <<PointStruct(next_id, get_text_embedding(Head(pairs).chunk),
                       Payload(Head(pairs).chunk, Head(pairs).doc.metadata))>>
         \o build_points(Tail(pairs), next_id + 1)

\* An id seed that is the snapshot maximum itself.
first_new_id_without_increment(existing_index) == MaxOr0(DictValues(existing_index))

\* An id seed taken from the number of snapshot entries.
first_new_id_by_count(existing_index) == Len(existing_index) + 1

\* next_id = max(existing_index.values(), default=0) + 1
first_new_id(existing_index) == MaxOr0(DictValues(existing_index)) + 1

\* ------------------------------------------------------------ vector index
PointIds(points) == {points[n].id : n \in DOMAIN points}

\* client.upsert: insert, or replace the stored point of the same id.
Upsert(S, points) ==
    {q \in S : q.id \notin PointIds(points)} \cup {points[n] : n \in DOMAIN points}

\* client.delete(points_selector={"points": ids})
Delete(S, ids) == {q \in S : q.id \notin {ids[n] : n \in DOMAIN ids}}

\* A scroll that follows the cursor to the end: every stored point, whatever
\* the limit.
ScrollPages_unbounded(S, limit) ==
    LET n == Cardinality(S)
    IN  { [j \in 1..n |-> [id |-> f[j].id, payload |-> f[j].payload]] :
            f \in {g \in [1..n -> S] : \A a, b \in 1..n : a # b => g[a] # g[b]} }

\* client.scroll(collection, limit): one page of at most `limit` stored points
\* (id and payload), without following the cursor.  Neither the page's order
\* nor which points make up a truncated page is fixed by the caller.
ScrollPages(S, limit) ==
    LET n == IF Cardinality(S) < limit THEN Cardinality(S) ELSE limit
    IN  { [j \in 1..n |-> [id |-> f[j].id, payload |-> f[j].payload]] :
            f \in {g \in [1..n -> S] : \A a, b \in 1..n : a # b => g[a] # g[b]} }

\* ------------------------------------------------------- sync_vectorstore
\* existing_index: key -> id, later-scanned points overwriting earlier ones.
RECURSIVE index_existing(_, _)
index_existing(existing, index) ==
    IF existing = <<>> THEN index
    ELSE index_existing(Tail(existing),
                        DictPut(index, payload_key(Head(existing).payload), Head(existing).id))

\* new_index = {doc_key(d): d for d in docs}
RECURSIVE index_docs(_, _)
index_docs(docs, index) ==
    IF docs = <<>> THEN index
    ELSE index_docs(Tail(docs), DictPut(index, doc_key(Head(docs)), Head(docs)))

\* [d[k] for k in d if k not in skip]: the values in the order of the dict.
DictValuesNotIn(d, skip) ==
    LET sel == SelectSeq(d, LAMBDA e : e.k \notin skip)
    IN  [n \in DOMAIN sel |-> sel[n].v]

\* A plan that never deletes.
plan_to_delete_none(existing_index, new_index) == <<>>

\* to_delete = [existing_index[k] for k in existing_index if k not in new_index]
plan_to_delete(existing_index, new_index) ==
    DictValuesNotIn(existing_index, DictKeys(new_index))

\* A to_add that forgets the membership test.
plan_to_add_unfiltered(existing_index, new_index) ==
    DictValuesNotIn(new_index, {})

\* to_add = [new_index[k] for k in new_index if k not in existing_index]
plan_to_add(existing_index, new_index) ==
    DictValuesNotIn(new_index, DictKeys(existing_index))

\* ------------------------------------------------------------------- state
VARIABLES
    collections,  \* names of the collections the vector index holds
    store,        \* the points stored in COLLECTION_NAME
    batch_size,   \* the module's BATCH_SIZE
    nruns,        \* invocations of main() started so far
    run,          \* per process: main()'s position, locals and issued calls
    eval          \* a helper function called on its own: name, arguments, result

vars == <<collections, store, batch_size, nruns, run, eval>>

\* One operating-system process per invocation of main(); P1 runs alone under
\* Spec, P2 is a second, overlapping invocation.
P1 == "p1"
P2 == "p2"
Procs == {P1, P2}

Final == {"returned", "raised"}

\* No helper function is being called on its own.
NoEval == [fn |-> "none"]

\* The first call of an invocation that failed, "none" when none did.
FailedOp(calls) ==
    IF \E n \in DOMAIN calls : ~calls[n].ok
    THEN calls[CHOOSE n \in DOMAIN calls :
                 ~calls[n].ok /\ \A m \in 1..(n - 1) : calls[m].ok].op
    ELSE "none"

\* What an invocation remembers of the one before it: whether that one loaded
\* the same Documents, which of its calls failed, whether it took the sync
\* path to its end, whether the collection it met fitted one scroll page, and
\* the keys of the Documents it selected for addition.
NoRun == [same |-> FALSE, failed |-> "none", synced |-> FALSE, fit |-> TRUE, added |-> {}]

Synced(r) ==
    /\ r.pc \in {"count", "returned", "raised"}
    /\ \E n \in DOMAIN r.calls : r.calls[n].op = "scroll" /\ r.calls[n].ok
    /\ \A n \in DOMAIN r.calls : r.calls[n].op # "count" => r.calls[n].ok

\* main() not started.  `calls` records every index and embedding call of the
\* invocation in order; `store0` is the collection when the invocation began
\* and `prev` describes the invocation before this one.
IdleRun ==
    [ pc |-> "idle", all_docs |-> <<>>, existing |-> <<>>, existing_index |-> <<>>,
      new_index |-> <<>>, to_delete |-> <<>>, to_add |-> <<>>, next_id |-> 0,
      new_points |-> <<>>, i |-> 0, calls |-> <<>>, store0 |-> {}, prev |-> NoRun ]

\* Process p moves to local state r.
Goto(p, r) == run' = [run EXCEPT ![p] = r]

Call(r, entry) == [r EXCEPT !.calls = Append(@, entry)]

Raise(r) == [r EXCEPT !.pc = "raised"]

Init ==
    /\ collections = {}
    /\ store = {}
    /\ batch_size = BATCH_SIZE
    /\ nruns = 0
    /\ run = [p \in Procs |-> IdleRun]
    /\ eval = NoEval

\* -------------------------------------------------------------------- main
Begin(p) ==
    /\ run[p].pc \in {"idle"} \cup Final
    /\ nruns < MaxRuns
    /\ nruns' = nruns + 1
    /\ UNCHANGED <<collections, store, batch_size, eval>>

\* The locals of a new invocation of p that loads `docs`.
Fresh(p, docs) ==
    [IdleRun EXCEPT
        !.all_docs = docs,
        !.store0 = store,
        !.prev = IF run[p].pc = "idle" THEN NoRun
                 ELSE [same |-> docs = run[p].all_docs,
                       failed |-> FailedOp(run[p].calls),
                       synced |-> Synced(run[p]),
                       fit |-> Cardinality(run[p].store0) <= SCROLL_LIMIT,
                       added |-> {doc_key(run[p].to_add[n]) : n \in DOMAIN run[p].to_add}]]

\* if not DOCS_DIR.exists(): raise FileNotFoundError
DocsDirMissing(p) ==
    /\ Begin(p)
    /\ Goto(p, Raise(Fresh(p, <<>>)))

\* A loading loop without the "No documents" return.
Load_without_empty_return(p) ==
    /\ Begin(p)
    /\ \E dir \in Dirs :
          IF load_raises(dir) THEN Goto(p, Raise(Fresh(p, <<>>)))
          ELSE Goto(p, [Fresh(p, load_all(dir)) EXCEPT !.pc = "probe"])

\* The loading loop and the "No documents" return.
Load(p) ==
    /\ Begin(p)
    /\ \E dir \in Dirs :
          IF load_raises(dir) THEN Goto(p, Raise(Fresh(p, <<>>)))
          ELSE IF load_all(dir) = <<>>
               THEN Goto(p, [Fresh(p, <<>>) EXCEPT !.pc = "returned"])
               ELSE Goto(p, [Fresh(p, load_all(dir)) EXCEPT !.pc = "probe"])

\* embedding_dim = len(embed_model.get_text_embedding("test"))
Probe(p) ==
    /\ run[p].pc = "probe"
    /\ \E ok \in BOOLEAN :
          LET r == Call(run[p], [op |-> "embed", ok |-> ok, text |-> ProbeText, key |-> <<>>])
          IN  Goto(p, IF ok THEN [r EXCEPT !.pc = "get_collections"] ELSE Raise(r))
    /\ UNCHANGED <<collections, store, batch_size, nruns, eval>>

\* collections = [c.name for c in client.get_collections().collections]
GetCollections(p) ==
    /\ run[p].pc = "get_collections"
    /\ \E ok \in BOOLEAN :
          LET r == Call(run[p], [op |-> "get_collections", ok |-> ok])
          IN  Goto(p, IF ~ok THEN Raise(r)
                      ELSE IF COLLECTION_NAME \notin collections
                           THEN [r EXCEPT !.pc = "create"]
                           ELSE [r EXCEPT !.pc = "scroll"])
    /\ UNCHANGED <<collections, store, batch_size, nruns, eval>>

\* A mutating call succeeds, fails without effect, or fails after the index
\* applied it (a timeout on the reply).
Outcomes == {"ok", "failed", "failed_applied"}

\* client.recreate_collection(...)
CreateCollection(p) ==
    /\ run[p].pc = "create"
    /\ \E out \in Outcomes :
          LET r == Call(run[p], [op |-> "create_collection", ok |-> out = "ok"])
          IN  /\ Goto(p, IF out = "ok" THEN [r EXCEPT !.pc = "ingest"] ELSE Raise(r))
              /\ IF out = "failed"
                 THEN UNCHANGED <<collections, store>>
                 ELSE collections' = collections \cup {COLLECTION_NAME} /\ store' = {}
    /\ UNCHANGED <<batch_size, nruns, eval>>

\* The embedding calls of a points-building loop: `fail` = 0 when all succeed,
\* else the position of the call that raises.
EmbedCalls(pairs, fail) ==
    [n \in 1..(IF fail = 0 THEN Len(pairs) ELSE fail) |->
        [op |-> "embed", ok |-> n # fail, text |-> pairs[n].chunk, key |-> doc_key(pairs[n].doc)]]

\* A points-building phase that, when an embedding call fails, submits the
\* points built before the failure.
BuildPhase_keeps_partial_points(p, docs, first) ==
    LET pairs == doc_chunks(docs)
    IN  \E fail \in 0..Len(pairs) :
           LET r == [run[p] EXCEPT !.calls = @ \o EmbedCalls(pairs, fail)]
               built == IF fail = 0 THEN pairs ELSE SubSeq(pairs, 1, fail - 1)
           IN  Goto(p, [r EXCEPT !.pc = "upsert",
                                 !.next_id = first + Len(built),
                                 !.new_points = build_points(built, first)])

\* The loops of a points-building phase over `docs`, ids from `first`.
BuildPhase(p, docs, first) ==
    LET pairs == doc_chunks(docs)
    IN  \E fail \in 0..Len(pairs) :
           LET r == [run[p] EXCEPT !.calls = @ \o EmbedCalls(pairs, fail)]
           IN  Goto(p, IF fail # 0 THEN Raise(r)
                       ELSE [r EXCEPT !.pc = "upsert",
                                      !.next_id = first + Len(pairs),
                                      !.new_points = build_points(pairs, first)])

\* A full ingestion that numbers the points from 0.
Ingest_from_zero(p) ==
    /\ run[p].pc = "ingest"
    /\ BuildPhase(p, run[p].all_docs, 0)
    /\ UNCHANGED <<collections, store, batch_size, nruns, eval>>

\* Full ingestion: points for all_docs with pid from 1.
Ingest(p) ==
    /\ run[p].pc = "ingest"
    /\ BuildPhase(p, run[p].all_docs, 1)
    /\ UNCHANGED <<collections, store, batch_size, nruns, eval>>

\* -------------------------------------------------------- sync_vectorstore
\* An additions decision that takes every loaded Document as new.
Additions_all_docs(r) ==
    [r EXCEPT !.to_add = r.all_docs, !.pc = IF r.all_docs # <<>> THEN "embed" ELSE "count"]

\* The additions decision after the deletions: to_add, or "No new additions".
Additions(r) ==
    LET to_add == plan_to_add(r.existing_index, r.new_index)
    IN  [r EXCEPT !.to_add = to_add, !.pc = IF to_add # <<>> THEN "embed" ELSE "count"]

\* A plan that issues the delete call even when to_delete is empty.
Planned_always_deletes(r, existing) ==
    LET existing_index == index_existing(existing, <<>>)
        new_index == index_docs(r.all_docs, <<>>)
        to_delete == plan_to_delete(existing_index, new_index)
    IN  [r EXCEPT !.existing = existing, !.existing_index = existing_index,
                  !.new_index = new_index, !.to_delete = to_delete, !.pc = "delete"]

\* The state after a successful scroll: both indexes and to_delete.
Planned(r, existing) ==
    LET existing_index == index_existing(existing, <<>>)
        new_index == index_docs(r.all_docs, <<>>)
        to_delete == plan_to_delete(existing_index, new_index)
        r1 == [r EXCEPT !.existing = existing, !.existing_index = existing_index,
                        !.new_index = new_index, !.to_delete = to_delete]
    IN  IF to_delete # <<>> THEN [r1 EXCEPT !.pc = "delete"] ELSE Additions(r1)

\* A scroll whose failure is taken for an empty collection.
Scroll_failure_as_empty(p) ==
    /\ run[p].pc = "scroll"
    /\ \/ Goto(p, Planned(Call(run[p], [op |-> "scroll", ok |-> FALSE]), <<>>))
       \/ \E existing \in ScrollPages(store, SCROLL_LIMIT) :
             Goto(p, Planned(Call(run[p], [op |-> "scroll", ok |-> TRUE]), existing))
    /\ UNCHANGED <<collections, store, batch_size, nruns, eval>>

\* existing, _ = client.scroll(collection_name, limit=50_000); a failure is
\* caught and sync_vectorstore returns.
Scroll(p) ==
    /\ run[p].pc = "scroll"
    /\ \/ Goto(p, [Call(run[p], [op |-> "scroll", ok |-> FALSE]) EXCEPT !.pc = "count"])
       \/ \E existing \in ScrollPages(store, SCROLL_LIMIT) :
             Goto(p, Planned(Call(run[p], [op |-> "scroll", ok |-> TRUE]), existing))
    /\ UNCHANGED <<collections, store, batch_size, nruns, eval>>

\* client.delete(collection_name, points_selector={"points": to_delete})
DeletePoints(p) ==
    /\ run[p].pc = "delete"
    /\ \E out \in Outcomes :
          LET r == Call(run[p], [op |-> "delete", ok |-> out = "ok", ids |-> run[p].to_delete])
          IN  /\ Goto(p, IF out = "ok" THEN Additions(r) ELSE Raise(r))
              /\ store' = IF out = "failed" THEN store ELSE Delete(store, run[p].to_delete)
    /\ UNCHANGED <<collections, batch_size, nruns, eval>>

\* Addition loops that number the new points after the largest id stored in
\* the collection at that moment.
Embed_ids_from_collection(p) ==
    /\ run[p].pc = "embed"
    /\ BuildPhase(p, run[p].to_add, MaxOr0({q.id : q \in store}) + 1)
    /\ UNCHANGED <<collections, store, batch_size, nruns, eval>>

\* Addition loops that submit the points of the first added document before
\* embedding the chunks of the documents after it.
Embed_upsert_per_document(p) ==
    /\ run[p].pc = "embed"
    /\ LET first == first_new_id(run[p].existing_index)
           head == doc_chunks(<<Head(run[p].to_add)>>)
           rest == doc_chunks(Tail(run[p].to_add))
           points == build_points(head, first)
           r == [run[p] EXCEPT !.calls = @ \o EmbedCalls(head, 0)
                                   \o <<[op |-> "upsert", ok |-> TRUE, points |-> points]>>
                                   \o EmbedCalls(rest, 0)]
       IN  /\ Goto(p, [r EXCEPT !.pc = "upsert",
                                !.next_id = first + Len(head) + Len(rest),
                                !.new_points = build_points(rest, first + Len(head))])
           /\ store' = Upsert(store, points)
    /\ UNCHANGED <<collections, batch_size, nruns, eval>>

\* The addition loops: next_id from the snapshot, one embedding per chunk.
Embed(p) ==
    /\ run[p].pc = "embed"
    /\ BuildPhase(p, run[p].to_add, first_new_id(run[p].existing_index))
    /\ UNCHANGED <<collections, store, batch_size, nruns, eval>>

\* ------------------------------------------------ upsert_points_in_batches
\* A batch whose end index is taken as inclusive.
batch_at_inclusive(points, i, size) == Slice(points, i, i + size + 1)

\* batch = points[i : i + BATCH_SIZE]
batch_at(points, i, size) == Slice(points, i, i + size)

\* A loop that swallows the failure of a batch and goes on to the next one.
UpsertBatch_failure_swallowed(p) ==
    /\ run[p].pc = "upsert"
    /\ LET points == run[p].new_points
           batch == batch_at(points, run[p].i, batch_size)
       IN  IF run[p].i >= Len(points)
           THEN Goto(p, [run[p] EXCEPT !.pc = "count"]) /\ UNCHANGED store
           ELSE \E out \in Outcomes :
                   LET r == Call(run[p], [op |-> "upsert", ok |-> out = "ok", points |-> batch])
                   IN  /\ Goto(p, [r EXCEPT !.i = @ + batch_size])
                       /\ store' = IF out = "failed" THEN store ELSE Upsert(store, batch)
    /\ UNCHANGED <<collections, batch_size, nruns, eval>>

\* One pass of the loop over range(0, len(points), BATCH_SIZE): the upsert of
\* the batch at offset i, or the return when the range is exhausted.
UpsertBatch(p) ==
    /\ run[p].pc = "upsert"
    /\ LET points == run[p].new_points
           batch == batch_at(points, run[p].i, batch_size)
       IN  IF run[p].i >= Len(points)
           THEN Goto(p, [run[p] EXCEPT !.pc = "count"]) /\ UNCHANGED store
           ELSE \E out \in Outcomes :
                   LET r == Call(run[p], [op |-> "upsert", ok |-> out = "ok", points |-> batch])
                   IN  /\ Goto(p, IF out = "ok" THEN [r EXCEPT !.i = @ + batch_size]
                                  ELSE Raise(r))
                       /\ store' = IF out = "failed" THEN store ELSE Upsert(store, batch)
    /\ UNCHANGED <<collections, batch_size, nruns, eval>>

\* count = client.count(COLLECTION_NAME).count, then main returns.
Count(p) ==
    /\ run[p].pc = "count"
    /\ \E ok \in BOOLEAN :
          LET r == Call(run[p], [op |-> "count", ok |-> ok])
          IN  Goto(p, IF ok THEN [r EXCEPT !.pc = "returned"] ELSE Raise(r))
    /\ UNCHANGED <<collections, store, batch_size, nruns, eval>>

\* ----------------------------------------------------------- specification
Step(p) ==
    \/ DocsDirMissing(p)
    \/ Load(p)
    \/ Probe(p)
    \/ GetCollections(p)
    \/ CreateCollection(p)
    \/ Ingest(p)
    \/ Scroll(p)
    \/ DeletePoints(p)
    \/ Embed(p)
    \/ UpsertBatch(p)
    \/ Count(p)

\* Invocations of main() one after the other, never overlapping.
Next == Step(P1)

Spec == Init /\ [][Next]_vars

\* ---------------------------------------------------------- overlapping runs
\* Two invocations of main() at the same time, before the collection exists
\* or against a collection that holds the one point of b.docx; either may
\* also run twice.
InitOverlap ==
    /\ \/ collections = {} /\ store = {}
       \/ /\ collections = {COLLECTION_NAME}
          /\ store = {PointStruct(1, get_text_embedding(TextOne),
                                  Payload(TextOne, [source |-> <<"b">>]))}
    /\ batch_size = BATCH_SIZE
    /\ nruns = MaxRuns - 2
    /\ run = [p \in Procs |-> IdleRun]
    /\ eval = NoEval

NextOverlap == Step(P1) \/ Step(P2)

SpecOverlap == InitOverlap /\ [][NextOverlap]_vars

\* ------------------------------------------------------- batching harness
\* upsert_points_in_batches on its own: every list of up to MaxPoints points,
\* every batch size up to MaxBatch, against an empty or a populated collection.
SomePoint(id) ==
    PointStruct(id, get_text_embedding(TextOne), Payload(TextOne, [source |-> <<"a">>]))

InitBatch ==
    /\ collections = {COLLECTION_NAME}
    /\ store \in {{}, {SomePoint(1)}}
    /\ batch_size \in 1..MaxBatch
    /\ nruns = 1
    /\ eval = NoEval
    /\ \E L \in 0..MaxPoints :
          run = [p \in Procs |->
                   IF p = P1
                   THEN [IdleRun EXCEPT !.pc = "upsert", !.store0 = store,
                                        !.new_points = [n \in 1..L |-> SomePoint(n)]]
                   ELSE IdleRun]

NextBatch == UpsertBatch(P1)

SpecBatch == InitBatch /\ [][NextBatch]_vars

\* --------------------------------------------------------- loader harness
\* The loading loop of main on its own: every directory of up to MaxLoadFiles
\* files, one file per supported type, each readable or not.
LoadFileUniverse ==
    UNION { { File(<<"p">>, ".pdf", broken, "none", <<TextOne>>),
              File(<<"a">>, ".txt", broken, "none", <<TextTwo>>),
              File(<<"b">>, ".docx", broken, "none", <<TextOne>>),
              File(<<"c">>, ".csv", broken, "none", <<TextOne, TextTwo>>),
              File(<<"j">>, ".json", broken, "list", <<TextOne, TextOne>>) } :
            broken \in BOOLEAN }

LoadDirs ==
    UNION { { d \in [1..n -> LoadFileUniverse] :
                \A a, b \in 1..n : a # b => d[a].name # d[b].name } : n \in 0..MaxLoadFiles }

InitLoad ==
    /\ collections = {}
    /\ store = {}
    /\ batch_size = BATCH_SIZE
    /\ nruns = 0
    /\ run = [p \in Procs |-> IdleRun]
    /\ \E dir \in LoadDirs :
          eval = [fn |-> "load", dir |-> dir, raised |-> FALSE, all_docs |-> <<>>]

\* for file in DOCS_DIR.iterdir(): all_docs.extend(load_...(file))
EvalLoad ==
    /\ eval.fn = "load"
    /\ eval' = IF load_raises(eval.dir)
               THEN [eval EXCEPT !.fn = "done", !.raised = TRUE]
               ELSE [eval EXCEPT !.fn = "done", !.all_docs = load_all(eval.dir)]
    /\ UNCHANGED <<collections, store, batch_size, nruns, run>>

NextLoad == EvalLoad

SpecLoad == InitLoad /\ [][NextLoad]_vars

\* ---------------------------------------------------------- chunk harness
\* chunk_text on its own: every text of up to MaxLen characters over two
\* letters, a space and a newline, and one text of five words, with every
\* chunk size up to MaxChunk.
FiveWords == <<"o", "n", "e", " ", "t", "w", "o", " ", "t", "h", "r", "e", "e", " ", "f", "o", "u", "r", " ", "f", "i", "v", "e">>

ChunkTexts ==
    UNION { [1..n -> {"x", "y", " ", "\n"}] : n \in 0..MaxLen } \cup {FiveWords}

InitChunk ==
    /\ collections = {}
    /\ store = {}
    /\ batch_size = BATCH_SIZE
    /\ nruns = 0
    /\ run = [p \in Procs |-> IdleRun]
    /\ \E text \in ChunkTexts, size \in 1..MaxChunk :
          eval = [fn |-> "chunk_text", text |-> text, chunk_size |-> size, chunks |-> <<>>]

\* list(chunk_text(text, chunk_size))
EvalChunkText ==
    /\ eval.fn = "chunk_text"
    /\ eval' = [eval EXCEPT !.fn = "done", !.chunks = chunk_text(eval.text, eval.chunk_size)]
    /\ UNCHANGED <<collections, store, batch_size, nruns, run>>

NextChunk == EvalChunkText

SpecChunk == InitChunk /\ [][NextChunk]_vars

\* ------------------------------------------------------------ key harness
\* doc_key and the key of the snapshot scan on their own: every pair of
\* Documents over KeySources with row_index and json_index each absent or one
\* of KeyIndexes.
KeySources ==
    { <<"a">>, <<"b">>,
      <<"a", "#", "r", "o", "w", "_", "i", "n", "d", "e", "x", ":", "0">>,
      <<"a", "#", "j", "s", "o", "n", "_", "i", "n", "d", "e", "x", ":", "1">> }

KeyIndexes == {0, 1, 10}

KeyMetadatas ==
    UNION { { [source |-> s] }
            \cup { [source |-> s, row_index |-> r] : r \in KeyIndexes }
            \cup { [source |-> s, json_index |-> j] : j \in KeyIndexes }
            \cup { [source |-> s, row_index |-> r, json_index |-> j] :
                       r \in KeyIndexes, j \in KeyIndexes } : s \in KeySources }

InitKey ==
    /\ collections = {}
    /\ store = {}
    /\ batch_size = BATCH_SIZE
    /\ nruns = 0
    /\ run = [p \in Procs |-> IdleRun]
    /\ \E m1, m2 \in KeyMetadatas :
          eval = [fn |-> "doc_key", docs |-> <<Document(TextOne, m1), Document(TextOne, m2)>>,
                  keys |-> <<>>, points |-> <<>>, scanned |-> <<>>]

\* doc_key(d) of both Documents.
EvalDocKey ==
    /\ eval.fn = "doc_key"
    /\ eval' = [eval EXCEPT !.fn = "point",
                            !.keys = [n \in DOMAIN eval.docs |-> doc_key(eval.docs[n])]]
    /\ UNCHANGED <<collections, store, batch_size, nruns, run>>

\* The points built from the Documents, and the key the scan derives from the
\* payload of each.
EvalPointKey ==
    /\ eval.fn = "point"
    /\ LET points == build_points(doc_chunks(eval.docs), 1)
       IN  eval' = [eval EXCEPT !.fn = "done",
                                !.points = points,
                                !.scanned = [n \in DOMAIN points |-> payload_key(points[n].payload)]]
    /\ UNCHANGED <<collections, store, batch_size, nruns, run>>

NextKey == EvalDocKey \/ EvalPointKey

SpecKey == InitKey /\ [][NextKey]_vars

\* ------------------------------------------------- vocabulary of the claims
\* The invocation under observation.
R == run[P1]

CallsOf(r, op) == SelectSeq(r.calls, LAMBDA c : c.op = op)

\* sync_vectorstore got its scroll page: the indexes and to_delete are set.
Scanned(r) == \E n \in DOMAIN r.calls : r.calls[n].op = "scroll" /\ r.calls[n].ok

\* ... and went past the deletions: to_add is set.
AddsPlanned(r) ==
    /\ Scanned(r)
    /\ r.pc # "delete"
    /\ \A n \in DOMAIN r.calls : r.calls[n].op = "delete" => r.calls[n].ok

\* sync_vectorstore returned normally, no call of it having failed.
SyncCompleted(r) == Synced(r)

\* The stored points of S that belong to the document of key k.
PointsOf(S, k) == {q \in S : payload_key(q.payload) = k}

CorpusKeys(r) == {doc_key(r.all_docs[n]) : n \in DOMAIN r.all_docs}

SeqToSet(s) == {s[n] : n \in DOMAIN s}

RECURSIVE Concat(_)
Concat(ss) == IF ss = <<>> THEN <<>> ELSE Head(ss) \o Concat(Tail(ss))

\* ------------------------------------------------------------------ claims
\* C1: to_delete is exactly the snapshot ids of the keys in the snapshot and
\* not in the corpus, to_add exactly the Documents whose keys are in the corpus
\* and not in the snapshot, each once; a key in both contributes to neither.
C1_PlanIsSetDifference ==
    LET E == R.existing_index
        I == R.new_index
        gone == DictKeys(E) \ DictKeys(I)
        new == DictKeys(I) \ DictKeys(E)
        both == DictKeys(E) \cap DictKeys(I)
    IN  /\ Scanned(R) =>
              /\ SeqToSet(R.to_delete) = {DictGet(E, k) : k \in gone}
              /\ Len(R.to_delete) = Cardinality(gone)
              /\ \A k \in both : DictGet(E, k) \notin SeqToSet(R.to_delete)
        /\ AddsPlanned(R) =>
              /\ SeqToSet(R.to_add) = {DictGet(I, k) : k \in new}
              /\ Len(R.to_add) = Cardinality(new)
              /\ \A k \in both : DictGet(I, k) \notin SeqToSet(R.to_add)

\* A plan with a removed key, a new key and a key on both sides.
C1_Witness ==
    /\ AddsPlanned(R)
    /\ DictKeys(R.existing_index) \ DictKeys(R.new_index) # {}
    /\ DictKeys(R.new_index) \ DictKeys(R.existing_index) # {}
    /\ DictKeys(R.existing_index) \cap DictKeys(R.new_index) # {}
    /\ R.to_delete # <<>>
    /\ R.to_add # <<>>

\* The corpus documents of the run whose key the scan found in the index.
KeptKeys(r) == CorpusKeys(r) \cap DictKeys(r.existing_index)

\* C2 (the embedding part): no embedding call of a sync run is made for a
\* chunk of a document whose key is both in the scanned index and in the corpus.
C2_NoEmbeddingForKept ==
    Scanned(R) =>
        \A n \in DOMAIN R.calls :
            R.calls[n].op = "embed" => R.calls[n].key \notin KeptKeys(R)

\* C2 (the delete part): the delete call names no stored point of such a
\* document.
C2_NoDeleteOfKept ==
    Scanned(R) =>
        \A k \in KeptKeys(R) : \A n \in DOMAIN R.calls :
            R.calls[n].op = "delete" =>
                SeqToSet(R.calls[n].ids) \cap {q.id : q \in PointsOf(R.store0, k)} = {}

\* C2: a document whose key is both in the scanned index and in the corpus is
\* left untouched by the sync run: no embedding call for its chunks, no upsert
\* or delete naming one of its stored points, and its stored points are the
\* same before and after.
C2_KeptDocumentUntouched ==
    /\ C2_NoEmbeddingForKept
    /\ C2_NoDeleteOfKept
    /\ Scanned(R) =>
          \A k \in KeptKeys(R) :
              /\ \A n \in DOMAIN R.calls :
                    R.calls[n].op = "upsert" =>
                        PointIds(R.calls[n].points) \cap {q.id : q \in PointsOf(R.store0, k)} = {}
              /\ PointsOf(store, k) = PointsOf(R.store0, k)

\* C3: after a sync run that completes without a failing call on a collection
\* within the scan bound, no stored point has a key absent from the corpus.
C3_NoPointOfRemovedDocument ==
    (SyncCompleted(R) /\ Cardinality(R.store0) <= SCROLL_LIMIT) =>
        \A q \in store : payload_key(q.payload) \in CorpusKeys(R)

\* The corpus documents whose key the scan did not find, in corpus order.
NewDocs(r) ==
    SelectSeq(r.all_docs, LAMBDA d : doc_key(d) \notin DictKeys(r.existing_index))

\* The stored points of document d are one per chunk of its text, in chunk
\* order by id, each with the chunk as text plus all of d's metadata.
OnePointPerChunk(S, d) ==
    LET chunks == chunk_text(d.text, CHUNK_SIZE)
        pts == PointsOf(S, doc_key(d))
    IN  /\ Cardinality(pts) = Len(chunks)
        /\ \E id \in [DOMAIN chunks -> {q.id : q \in pts}] :
              /\ \A m, n \in DOMAIN chunks : m < n => id[m] < id[n]
              /\ \A n \in DOMAIN chunks :
                    \E q \in pts :
                        /\ q.id = id[n]
                        /\ q.payload.text = chunks[n]
                        /\ \A f \in DOMAIN d.metadata : q.payload[f] = d.metadata[f]
                        /\ DOMAIN q.payload = DOMAIN d.metadata \cup {"text"}

\* Documents earlier in the corpus hold the smaller ids.
InDocumentOrder(S, docs) ==
    \A m, n \in DOMAIN docs :
        m < n => \A q1 \in PointsOf(S, doc_key(docs[m])) :
                 \A q2 \in PointsOf(S, doc_key(docs[n])) : q1.id < q2.id

AddedDocumentsStored(r) ==
    /\ \A n \in DOMAIN NewDocs(r) : OnePointPerChunk(store, NewDocs(r)[n])
    /\ InDocumentOrder(store, NewDocs(r))

\* C4 as stated: after a sync run that completes without a failing call, every
\* corpus document whose key was absent from the scanned index has exactly one
\* stored point per chunk, in document order then chunk order, with payload
\* text = chunk plus all of the document's metadata.
C4_AddedDocumentsStored_AnySize ==
    SyncCompleted(R) => AddedDocumentsStored(R)

\* C4 amended: the same, for a collection that held no more points than the
\* scan bound when the run began.
C4_AddedDocumentsStored ==
    (SyncCompleted(R) /\ Cardinality(R.store0) <= SCROLL_LIMIT) => AddedDocumentsStored(R)

\* A completed sync run, within the scan bound, that added a multi-chunk
\* document and a document with an index in its metadata.
C4_Witness ==
    /\ SyncCompleted(R)
    /\ R.store0 # {}
    /\ Cardinality(R.store0) <= SCROLL_LIMIT
    /\ Len(NewDocs(R)) = 2
    /\ \E n \in DOMAIN NewDocs(R) : Len(chunk_text(NewDocs(R)[n].text, CHUNK_SIZE)) > 1
    /\ Len(CallsOf(R, "upsert")) = 2

\* C5: when a sync run has completed without failure and the corpus has not
\* changed, running sync again issues no delete call and no upsert call and
\* leaves the stored points unchanged.  Stated for collections within the scan
\* bound in both runs, where it fails all the same.
C5_RerunIsIdempotent ==
    ( /\ SyncCompleted(R) /\ Cardinality(R.store0) <= SCROLL_LIMIT
      /\ R.prev.synced /\ R.prev.failed = "none" /\ R.prev.fit /\ R.prev.same ) =>
        /\ CallsOf(R, "delete") = <<>>
        /\ CallsOf(R, "upsert") = <<>>
        /\ store = R.store0

\* Every chunk of every corpus document has a stored point.
AllChunksStored(r) ==
    \A n \in DOMAIN r.all_docs :
        LET d == r.all_docs[n]
            chunks == chunk_text(d.text, CHUNK_SIZE)
        IN  \A c \in DOMAIN chunks :
                \E q \in PointsOf(store, doc_key(d)) : q.payload.text = chunks[c]

\* C6: after a run that a failing delete or upsert call terminated, a later
\* failure-free run on the same corpus ends with a stored point for every chunk
\* of every corpus document.
C6_RetryConverges ==
    ( /\ R.pc = "returned"
      /\ FailedOp(R.calls) = "none"
      /\ R.prev.same
      /\ R.prev.failed \in {"delete", "upsert"} ) => AllChunksStored(R)

\* C7: if the scroll call fails, sync_vectorstore issues no delete, embedding
\* or upsert call, and the stored points are those stored before the run.
C7_ScrollFailureIsNoOp ==
    \A n \in DOMAIN R.calls :
        (R.calls[n].op = "scroll" /\ ~R.calls[n].ok) =>
            /\ \A m \in DOMAIN R.calls :
                  m > n => R.calls[m].op \notin {"delete", "embed", "upsert"}
            /\ CallsOf(R, "delete") = <<>>
            /\ CallsOf(R, "upsert") = <<>>
            /\ store = R.store0

\* A run whose scroll failed, over a populated collection and a corpus that
\* would have had both deletions and additions, after main has gone on.
C7_Witness ==
    /\ R.pc = "returned"
    /\ \E n \in DOMAIN R.calls : R.calls[n].op = "scroll" /\ ~R.calls[n].ok
    /\ R.store0 # {}
    /\ \E q \in R.store0 : payload_key(q.payload) \notin CorpusKeys(R)
    /\ \E k \in CorpusKeys(R) : PointsOf(R.store0, k) = {}

\* The upsert calls of the run so far, as the list of their batches.
Batches(r) == [n \in DOMAIN CallsOf(r, "upsert") |-> CallsOf(r, "upsert")[n].points]

\* C8: for a list of L points and a batch size B > 0, upsert_points_in_batches
\* issues exactly ceil(L/B) upsert calls (none when L = 0), every point is in
\* exactly one call, each call but possibly the last carries exactly B points
\* (the last between 1 and B), and the calls concatenated in call order are
\* the input list.
C8_BatchesPartitionTheList ==
    LET L == Len(R.new_points)
        B == batch_size
        batches == Batches(R)
    IN  (R.pc = "count" /\ B > 0) =>
            /\ Len(batches) = (L + B - 1) \div B
            /\ L = 0 => batches = <<>>
            /\ \A k \in DOMAIN R.new_points :
                  Cardinality({n \in DOMAIN batches :
                                  R.new_points[k] \in SeqToSet(batches[n])}) = 1
            /\ \A n \in DOMAIN batches :
                  /\ n < Len(batches) => Len(batches[n]) = B
                  /\ Len(batches[n]) \in 1..B
            /\ Concat(batches) = R.new_points

\* A finished loop over a list that is not a multiple of the batch size: full
\* batches and a short last one.
C8_Witness ==
    /\ R.pc = "count"
    /\ Len(R.new_points) = MaxPoints
    /\ batch_size = 2
    /\ Len(Batches(R)) = 3
    /\ Len(Batches(R)[3]) = 1

\* C9: when the upsert call for batch k fails, the points of batches 1..k-1
\* stay stored, no upsert is issued for a later batch, batch k is not retried
\* (the failed call is the last call of the run), and the run ends raised.
C9_BatchFailurePropagates ==
    \A n \in DOMAIN R.calls :
        (R.calls[n].op = "upsert" /\ ~R.calls[n].ok) =>
            /\ n = Len(R.calls)
            /\ R.pc = "raised"
            /\ \A m \in 1..(n - 1) :
                  R.calls[m].op = "upsert" =>
                      /\ R.calls[m].ok
                      /\ R.calls[m].points # R.calls[n].points
                      /\ SeqToSet(R.calls[m].points) \subseteq store
            /\ Len(CallsOf(R, "upsert")) <=
                  (Len(R.new_points) + batch_size - 1) \div batch_size

\* A sync run over a populated collection whose first batch went through and
\* whose second batch failed.
C9_Witness ==
    /\ R.pc = "raised"
    /\ Scanned(R)
    /\ R.store0 # {}
    /\ Len(CallsOf(R, "upsert")) = 2
    /\ ~CallsOf(R, "upsert")[2].ok
    /\ SeqToSet(CallsOf(R, "upsert")[1].points) \subseteq store

\* The ids of the Existing-Index Snapshot of the run.
SnapshotIds(r) == {r.existing_index[j].v : j \in DOMAIN r.existing_index}

\* C10: within one sync run the ids of the new points start at (the maximum
\* id of the Existing-Index Snapshot, or 0 when it is empty) + 1 and grow by 1
\* per point: none is at or below the seed maximum, and they strictly increase
\* in creation order.
C10_IdsFromSnapshotMaximum ==
    Scanned(R) =>
        LET seed == IF SnapshotIds(R) = {} THEN 0
                    ELSE CHOOSE m \in SnapshotIds(R) : \A x \in SnapshotIds(R) : x <= m
            pts == R.new_points
        IN  /\ \A n \in DOMAIN pts : pts[n].id = seed + n
            /\ \A n \in DOMAIN pts : \A x \in SnapshotIds(R) : pts[n].id > x
            /\ \A m, n \in DOMAIN pts : m < n => pts[m].id < pts[n].id

\* A sync run that built several new points over a snapshot of two keys whose
\* maximum id is not the number of keys.
C10_Witness ==
    /\ Scanned(R)
    /\ Len(R.existing_index) = 2
    /\ \E x \in SnapshotIds(R) : x > 2
    /\ Len(R.new_points) >= 2

\* C11: in the sync path no id given to a new point is the id of a point that
\* was stored in the collection when the run scanned it, so an upsert never
\* overwrites a stored point.
C11_NewIdsAreFresh ==
    Scanned(R) =>
        /\ PointIds(R.new_points) \cap {q.id : q \in R.store0} = {}
        /\ \A n \in DOMAIN R.calls :
              R.calls[n].op = "upsert" =>
                  PointIds(R.calls[n].points) \cap {q.id : q \in R.store0} = {}

\* C12: when the loaders produce no Documents the run stops before any index
\* call and any embedding call: it has issued no call at all and the
\* collection is as it was.
C12_NoDocumentsNoCalls ==
    R.all_docs = <<>> =>
        /\ R.calls = <<>>
        /\ R.pc \in {"idle", "returned", "raised"}
        /\ R.pc # "idle" => store = R.store0

\* A run that found no documents and returned, over a populated collection.
C12_Witness ==
    /\ R.pc = "returned"
    /\ R.all_docs = <<>>
    /\ R.calls = <<>>
    /\ R.store0 # {}

\* The run took the creation branch and its full ingestion went through.
IngestCompleted(r) ==
    /\ r.pc \in {"count", "returned", "raised"}
    /\ \E n \in DOMAIN r.calls : r.calls[n].op = "create_collection"
    /\ \A n \in DOMAIN r.calls : r.calls[n].op # "count" => r.calls[n].ok

\* C13: when the collection is not among the index's collections the run
\* creates it exactly once, issues no scroll and no delete, and stores one
\* point per chunk of every loaded document, with ids 1, 2, 3, ... in document
\* order then chunk order.
C13_FullIngestOfNewCollection ==
    /\ R.pc = "create" <=> (R.pc \in {"create", "scroll"} /\ COLLECTION_NAME \notin collections)
    /\ (\E n \in DOMAIN R.calls : R.calls[n].op = "create_collection") =>
          /\ Len(CallsOf(R, "create_collection")) = 1
          /\ CallsOf(R, "scroll") = <<>>
          /\ CallsOf(R, "delete") = <<>>
    /\ IngestCompleted(R) =>
          /\ \A n \in DOMAIN R.all_docs : OnePointPerChunk(store, R.all_docs[n])
          /\ InDocumentOrder(store, R.all_docs)
          /\ \A q \in store : payload_key(q.payload) \in CorpusKeys(R)
          /\ {q.id : q \in store} = 1..Cardinality(store)

\* A completed full ingestion of two documents, three chunks, two batches.
C13_Witness ==
    /\ IngestCompleted(R)
    /\ R.pc = "returned"
    /\ Len(R.all_docs) = 2
    /\ Cardinality(store) = 3
    /\ Len(CallsOf(R, "upsert")) = 2

\* The Documents whose keys have been computed, with their keys.
KeyDone == eval.fn \in {"point", "done"}

HasRow(m) == "row_index" \in DOMAIN m
HasJson(m) == "json_index" \in DOMAIN m

\* "#<name>:<digits of n>", written out.
RowSuffix(n) == <<"#", "r", "o", "w", "_", "i", "n", "d", "e", "x", ":">> \o str(n)
JsonSuffix(n) == <<"#", "j", "s", "o", "n", "_", "i", "n", "d", "e", "x", ":">> \o str(n)

\* C14 as stated: the key is the source followed by at most one suffix, the
\* row_index one when row_index is present, otherwise the json_index one when
\* json_index is present, otherwise nothing; with both present only the
\* row_index suffix is appended.
C14_AtMostOneSuffix ==
    KeyDone =>
        \A n \in DOMAIN eval.docs :
            LET m == eval.docs[n].metadata
            IN  eval.keys[n] =
                    IF HasRow(m) THEN m.source \o RowSuffix(m.row_index)
                    ELSE IF HasJson(m) THEN m.source \o JsonSuffix(m.json_index)
                    ELSE m.source

\* C14 amended: the key is the source, followed by the row_index suffix when
\* row_index is present, followed by the json_index suffix when json_index is
\* present (both, in that order, when both are present); an absent index adds
\* nothing and is never treated as index 0.
C14_SuffixPerPresentIndex ==
    KeyDone =>
        \A n \in DOMAIN eval.docs :
            LET m == eval.docs[n].metadata
                row == IF HasRow(m) THEN RowSuffix(m.row_index) ELSE <<>>
                json == IF HasJson(m) THEN JsonSuffix(m.json_index) ELSE <<>>
            IN  /\ eval.keys[n] = m.source \o row \o json
                /\ ~HasRow(m) => eval.keys[n] # m.source \o RowSuffix(0) \o json
                /\ ~HasJson(m) => eval.keys[n] # m.source \o row \o JsonSuffix(0)

\* Keys computed for a Document with both indexes and one with none.
C14_Witness ==
    /\ KeyDone
    /\ HasRow(eval.docs[1].metadata) /\ HasJson(eval.docs[1].metadata)
    /\ ~HasRow(eval.docs[2].metadata) /\ ~HasJson(eval.docs[2].metadata)
    /\ Len(eval.keys[1]) > Len(RowSuffix(eval.docs[1].metadata.row_index)) + 1

\* The source holds no '#'.
PlainSource(m) == \A j \in DOMAIN m.source : m.source[j] # "#"

\* C15 as stated: equal inputs give equal keys, and two inputs that differ in
\* source, kind of index, index value or presence of an index give different
\* keys, whatever the source string.
C15_KeyInjective ==
    KeyDone =>
        LET m1 == eval.docs[1].metadata
            m2 == eval.docs[2].metadata
        IN  (m1 = m2) <=> (eval.keys[1] = eval.keys[2])

\* C15 amended: the same, for source strings that hold no '#'.
C15_KeyInjectiveOnPlainSources ==
    KeyDone =>
        LET m1 == eval.docs[1].metadata
            m2 == eval.docs[2].metadata
        IN  /\ m1 = m2 => eval.keys[1] = eval.keys[2]
            /\ (PlainSource(m1) /\ PlainSource(m2) /\ m1 # m2) => eval.keys[1] # eval.keys[2]

\* Two inputs of one plain source and one index value that differ in the
\* kind of index only.
C15_Witness ==
    /\ KeyDone
    /\ PlainSource(eval.docs[1].metadata)
    /\ eval.docs[1].metadata.source = eval.docs[2].metadata.source
    /\ HasRow(eval.docs[1].metadata) /\ ~HasJson(eval.docs[1].metadata)
    /\ HasJson(eval.docs[2].metadata) /\ ~HasRow(eval.docs[2].metadata)
    /\ eval.docs[1].metadata.row_index = eval.docs[2].metadata.json_index
    /\ eval.keys[1] # eval.keys[2]

\* C17: for every point built from a Document, the key the snapshot scan
\* derives from the point's payload is doc_key of that Document, for every
\* combination of present and absent row_index and json_index.
C17_KeyRoundTrip ==
    eval.fn = "done" =>
        /\ Len(eval.points) = Len(eval.docs)
        /\ \A n \in DOMAIN eval.points :
              /\ eval.scanned[n] = eval.keys[n]
              /\ eval.points[n].payload.text = eval.docs[n].text

\* The round trip of a Document with both indexes and of one with a
\* json_index only.
C17_Witness ==
    /\ eval.fn = "done"
    /\ HasRow(eval.docs[1].metadata) /\ HasJson(eval.docs[1].metadata)
    /\ ~HasRow(eval.docs[2].metadata) /\ HasJson(eval.docs[2].metadata)
    /\ eval.scanned = eval.keys

\* The number of whitespace-delimited tokens of s: the positions at which one
\* begins.
TokenCount(s) ==
    Cardinality({j \in DOMAIN s :
                    s[j] \notin Whitespace /\ (j = 1 \/ s[j - 1] \in Whitespace)})

\* The tokens of s in order, each as its span of characters.
TokenAt(s, k) ==
    LET begin == CHOOSE j \in DOMAIN s :
                    /\ s[j] \notin Whitespace /\ (j = 1 \/ s[j - 1] \in Whitespace)
                    /\ TokenCount(SubSeq(s, 1, j)) = k
        end == CHOOSE j \in begin..Len(s) :
                    /\ \A i \in begin..j : s[i] \notin Whitespace
                    /\ (j = Len(s) \/ s[j + 1] \in Whitespace)
    IN  SubSeq(s, begin, end)

\* C16: for a text of k whitespace-delimited tokens and a size N > 0,
\* chunk_text yields ceil(k/N) chunks (none for an empty or blank text), each
\* but the last of exactly N tokens, the last of 1..N, none empty, without
\* overlap: the tokens of the chunks in order, each chunk single-spaced, are
\* the tokens of the text in order; 'one two three four five' with N = 3
\* gives 'one two three', 'four five'.
C16_ChunksPartitionTheTokens ==
    eval.fn = "done" =>
        LET k == TokenCount(eval.text)
            N == eval.chunk_size
            chunks == eval.chunks
        IN  /\ Len(chunks) = (k + N - 1) \div N
            /\ ~HasText(eval.text) => chunks = <<>>
            /\ \A n \in DOMAIN chunks :
                  /\ chunks[n] # <<>>
                  /\ n < Len(chunks) => TokenCount(chunks[n]) = N
                  /\ TokenCount(chunks[n]) \in 1..N
                  /\ Len(chunks[n]) =
                        TokenCount(chunks[n]) - 1
                        + Cardinality({j \in DOMAIN chunks[n] : chunks[n][j] \notin Whitespace})
                  /\ \A j \in DOMAIN chunks[n] :
                        chunks[n][j] \in Whitespace => chunks[n][j] = " "
                  /\ \A t \in 1..TokenCount(chunks[n]) :
                        TokenAt(chunks[n], t) = TokenAt(eval.text, (n - 1) * N + t)
            /\ (eval.text = FiveWords /\ N = 3) =>
                  chunks = << <<"o", "n", "e", " ", "t", "w", "o", " ", "t", "h", "r", "e", "e">>,
                              <<"f", "o", "u", "r", " ", "f", "i", "v", "e">> >>

\* The five-word text cut in chunks of three: a full chunk and a short one.
C16_Witness ==
    /\ eval.fn = "done"
    /\ eval.text = FiveWords
    /\ eval.chunk_size = 3
    /\ Len(eval.chunks) = 2

\* The Documents of the readable files of a directory, in directory order.
RECURSIVE ReadableDocs(_)
ReadableDocs(dir) ==
    IF dir = <<>> THEN <<>>
    ELSE (IF Head(dir).broken THEN <<>> ELSE load_file(Head(dir))) \o ReadableDocs(Tail(dir))

\* C18: a loader error on a single file of any supported type is recovered
\* locally: the loading loop does not raise, the file contributes no
\* Documents, and the Documents of the other files are loaded.
C18_LoaderErrorRecovered ==
    eval.fn = "done" =>
        /\ ~eval.raised
        /\ eval.all_docs = ReadableDocs(eval.dir)

\* C18, for the types other than CSV: when no CSV file of the directory is
\* unreadable, the unreadable files contribute nothing and the others load.
C18_LoaderErrorRecoveredButCsv ==
    (eval.fn = "done" /\ \A n \in DOMAIN eval.dir :
                            eval.dir[n].suffix = ".csv" => ~eval.dir[n].broken) =>
        /\ ~eval.raised
        /\ eval.all_docs = ReadableDocs(eval.dir)

\* Both invocations are sync runs that built their new points from the same
\* scroll page.
SameSnapshot ==
    /\ Scanned(run[P1]) /\ Scanned(run[P2])
    /\ run[P1].existing = run[P2].existing
    /\ run[P1].new_points # <<>> /\ run[P2].new_points # <<>>

\* C19: two sync runs that overlap are not isolated.  Whenever both built
\* their new points from the same snapshot, they allocate the same ids from
\* the same first id, and a document of both corpora that is new to one run is
\* new to the other, so both insert it.
C19_OverlappingRunsShareIds ==
    SameSnapshot =>
        /\ run[P1].new_points[1].id = run[P2].new_points[1].id
        /\ \A n \in DOMAIN run[P1].new_points :
              n \in DOMAIN run[P2].new_points =>
                  run[P1].new_points[n].id = run[P2].new_points[n].id
        /\ \A d \in SeqToSet(run[P1].all_docs) \cap SeqToSet(run[P2].all_docs) :
              d \in SeqToSet(run[P1].to_add) <=> d \in SeqToSet(run[P2].to_add)

\* Both runs scanned the same page and completed without a failing call; they
\* gave one id to different chunks, and the index ends with a chunk of a
\* corpus document missing and with more points than chunks for a document.
C19_Witness ==
    /\ SameSnapshot
    /\ run[P1].pc = "returned" /\ run[P2].pc = "returned"
    /\ SyncCompleted(run[P1]) /\ SyncCompleted(run[P2])
    /\ \E n \in DOMAIN run[P1].new_points :
          /\ n \in DOMAIN run[P2].new_points
          /\ run[P1].new_points[n].id = run[P2].new_points[n].id
          /\ run[P1].new_points[n].payload # run[P2].new_points[n].payload
    /\ \E p \in Procs : \E n \in DOMAIN run[p].to_add :
          \E c \in DOMAIN chunk_text(run[p].to_add[n].text, CHUNK_SIZE) :
              \A q \in PointsOf(store, doc_key(run[p].to_add[n])) :
                  q.payload.text # chunk_text(run[p].to_add[n].text, CHUNK_SIZE)[c]
    /\ \E p \in Procs : \E n \in DOMAIN run[p].to_add :
          Cardinality(PointsOf(store, doc_key(run[p].to_add[n])))
              > Len(chunk_text(run[p].to_add[n].text, CHUNK_SIZE))

\* C20: when an embedding call fails during the addition phase of a sync run,
\* the failure ends the run: the failed call is its last call, no upsert call
\* is issued, not even for the chunks embedded before it, and the collection
\* is the one the run began with less the points of to_delete.
C20_EmbeddingFailureAbortsAdditions ==
    Scanned(R) =>
        \A n \in DOMAIN R.calls :
            (R.calls[n].op = "embed" /\ ~R.calls[n].ok) =>
                /\ n = Len(R.calls)
                /\ R.pc = "raised"
                /\ CallsOf(R, "upsert") = <<>>
                /\ R.new_points = <<>>
                /\ \A m \in DOMAIN R.calls : R.calls[m].op = "delete" => R.calls[m].ok
                /\ store = {q \in R.store0 : q.id \notin SeqToSet(R.to_delete)}

\* A sync run that deleted a point, embedded one chunk and failed on the
\* next.
C20_Witness ==
    /\ Scanned(R)
    /\ R.pc = "raised"
    /\ R.calls[Len(R.calls)].op = "embed" /\ ~R.calls[Len(R.calls)].ok
    /\ R.calls[Len(R.calls) - 1].op = "embed" /\ R.calls[Len(R.calls) - 1].ok
    /\ Len(CallsOf(R, "delete")) = 1
    /\ store # R.store0

\* The points of the scroll page of the run that carry key k.
ScannedOf(r, k) == {q \in SeqToSet(r.existing) : payload_key(q.payload) = k}

\* The id of the point of key k that the scroll page holds last.
LastScannedId(r, k) ==
    r.existing[CHOOSE n \in DOMAIN r.existing :
                  /\ payload_key(r.existing[n].payload) = k
                  /\ \A m \in DOMAIN r.existing :
                        payload_key(r.existing[m].payload) = k => m <= n].id

\* The keys of the scroll page that are absent from the corpus.
RemovedKeys(r) == {payload_key(q.payload) : q \in SeqToSet(r.existing)} \ CorpusKeys(r)

\* C21 (the delete call): for a removed key with scanned points, the delete
\* call of the run names exactly one of them, the one scroll returned last.
C21_DeleteNamesLastScanned ==
    (Scanned(R) /\ R.pc # "delete") =>
        \A k \in RemovedKeys(R) :
            \A n \in DOMAIN R.calls :
                R.calls[n].op = "delete" =>
                    SeqToSet(R.calls[n].ids) \cap {q.id : q \in ScannedOf(R, k)}
                        = {LastScannedId(R, k)}

\* C21: for a removed document with n >= 1 chunk points in the scanned index,
\* a sync run that completes deletes exactly one of them, the one scroll
\* returned last for the key, and leaves the other n - 1 stored.
C21_OneDeletedOthersLeft ==
    /\ C21_DeleteNamesLastScanned
    /\ SyncCompleted(R) =>
          \A k \in RemovedKeys(R) :
              {q \in ScannedOf(R, k) :
                  \E s \in store : s.id = q.id /\ s.payload = q.payload}
                  = {q \in ScannedOf(R, k) : q.id # LastScannedId(R, k)}

\* C22: a sync run issues at most one delete call; the call names all the ids
\* of to_delete in one request, and is issued only when to_delete is
\* non-empty (and then always, once the run is past the plan).
C22_SingleDeleteCall ==
    LET deletes == CallsOf(R, "delete")
    IN  /\ Len(deletes) <= 1
        /\ \A n \in DOMAIN deletes :
              /\ deletes[n].ids = R.to_delete
              /\ R.to_delete # <<>>
        /\ (Scanned(R) /\ R.pc # "delete") => (Len(deletes) = 1 <=> R.to_delete # <<>>)
        /\ ~Scanned(R) => deletes = <<>>

\* A completed run whose one delete call carried two ids.
C22_Witness ==
    /\ R.pc = "returned"
    /\ SyncCompleted(R)
    /\ Len(R.to_delete) = 2
    /\ Len(CallsOf(R, "delete")) = 1
    /\ CallsOf(R, "delete")[1].ids = R.to_delete

\* The place of a call in the order of main(): the probe embedding that sizes
\* the collection, the collection listing, the scroll (or the creation of the
\* collection), the delete, the chunk embeddings, the upserts, the count.
CallRank(r, n) ==
    LET c == r.calls[n]
    IN  IF c.op = "embed" THEN (IF c.text = ProbeText /\ c.key = <<>> THEN 0 ELSE 4)
        ELSE IF c.op = "get_collections" THEN 1
        ELSE IF c.op \in {"scroll", "create_collection"} THEN 2
        ELSE IF c.op = "delete" THEN 3
        ELSE IF c.op = "upsert" THEN 5
        ELSE 6

\* The calls of the run that took the sync path.
OnSyncPath(r) == CallsOf(r, "scroll") # <<>>

\* C23 (as stated): in a sync run the scroll precedes every other index and
\* embedding call, the delete call precedes every embedding call, every
\* embedding call precedes the first upsert, and the count follows the last
\* upsert.
C23_ScrollPrecedesEverything ==
    OnSyncPath(R) =>
        \A m, n \in DOMAIN R.calls :
            /\ (R.calls[n].op = "scroll" /\ m # n) => n < m
            /\ (R.calls[m].op = "delete" /\ R.calls[n].op = "embed") => m < n
            /\ (R.calls[m].op = "embed" /\ R.calls[n].op = "upsert") => m < n
            /\ (R.calls[m].op = "upsert" /\ R.calls[n].op = "count") => m < n

\* C23: the calls of a run happen in a fixed order: the one probe embedding
\* and the collection listing come first; then the scroll precedes every
\* delete, chunk-embedding, upsert and count call, the delete call precedes
\* every chunk-embedding call, every chunk-embedding call precedes the first
\* upsert, and the count follows the last upsert.
C23_CallOrder ==
    \A m, n \in DOMAIN R.calls :
        m < n =>
            /\ CallRank(R, m) <= CallRank(R, n)
            /\ CallRank(R, m) \in {0, 1, 2, 3, 6} => CallRank(R, m) < CallRank(R, n)

\* A completed run with a delete, two chunk embeddings, two upserts and the
\* count.
C23_Witness ==
    /\ R.pc = "returned"
    /\ SyncCompleted(R)
    /\ Len(CallsOf(R, "delete")) = 1
    /\ Len(CallsOf(R, "embed")) >= 3
    /\ Len(CallsOf(R, "upsert")) = 2
    /\ Len(CallsOf(R, "count")) = 1

\* The stored points at the start of the run that the scroll page lacks.
Unscanned(r) == {q \in r.store0 : \A n \in DOMAIN r.existing : r.existing[n].id # q.id}

\* C24: a sync run issues exactly one scroll call; its page holds the stored
\* points up to the fixed limit and no more (the cursor is not followed); a
\* stored point the page lacks is never named in the run's delete call,
\* whatever its key.
C24_OneScrollPageBoundsTheDeletes ==
    /\ Len(CallsOf(R, "scroll")) <= 1
    /\ (R.pc \in {"delete", "embed"} \/ CallsOf(R, "delete") # <<>>) =>
          Len(CallsOf(R, "scroll")) = 1
    /\ Scanned(R) =>
          /\ Len(R.existing) =
                 (IF Cardinality(R.store0) < SCROLL_LIMIT
                  THEN Cardinality(R.store0) ELSE SCROLL_LIMIT)
          /\ \A n \in DOMAIN R.existing :
                \E q \in R.store0 : q.id = R.existing[n].id
                                     /\ q.payload = R.existing[n].payload
          /\ \A n \in DOMAIN R.calls :
                R.calls[n].op = "delete" =>
                    \A q \in Unscanned(R) : q.id \notin SeqToSet(R.calls[n].ids)

\* A completed run on a collection larger than the page: its delete call went
\* through, and a point the page lacked, of a key absent from the corpus, is
\* still stored.
C24_Witness ==
    /\ R.pc = "returned"
    /\ SyncCompleted(R)
    /\ Cardinality(R.store0) > SCROLL_LIMIT
    /\ CallsOf(R, "delete") # <<>>
    /\ \E q \in Unscanned(R) :
          /\ payload_key(q.payload) \notin CorpusKeys(R)
          /\ q \in store

\* ------------------------------------------- repeated runs on a fixed corpus
\* The collection a full ingestion of `docs` leaves behind.
IngestedStore(docs) == SeqToSet(build_points(doc_chunks(docs), 1))

\* The non-empty corpora main() can load.
Corpora == {load_all(dir) : dir \in {d \in Dirs : ~load_raises(d)}} \ {<<>>}

\* The largest number of stored points of one key that is absent from `docs`.
MostOrphans(S, docs) ==
    LET keys == {doc_key(docs[n]) : n \in DOMAIN docs}
        gone == {payload_key(q.payload) : q \in S} \ keys
    IN  MaxOr0({Cardinality(PointsOf(S, k)) : k \in gone})

\* A collection ingested from one corpus meets repeated runs of main() on
\* another, fixed from then on.  `eval` keeps the corpus, the orphan bound M of
\* the starting collection, and whether every run so far was free of failing
\* calls (clean) and met a collection within one scroll page (fit).
InitConverge ==
    /\ collections = {COLLECTION_NAME}
    /\ \E before \in Corpora : store = IngestedStore(before)
    /\ batch_size = BATCH_SIZE
    /\ nruns = 0
    /\ run = [p \in Procs |-> IdleRun]
    /\ \E docs \in Corpora :
          eval = [fn |-> "rerun", corpus |-> docs, M |-> MostOrphans(store, docs),
                  clean |-> TRUE, fit |-> TRUE]

\* main() invoked again on the fixed corpus.
Rerun(p) ==
    /\ run[p].pc \in {"idle"} \cup Final
    /\ nruns < MaxRuns
    /\ nruns' = nruns + 1
    /\ Goto(p, [Fresh(p, eval.corpus) EXCEPT !.pc = "probe"])
    /\ eval' = [eval EXCEPT
                   !.clean = @ /\ (run[p].pc = "idle"
                                     \/ (run[p].pc = "returned" /\ Synced(run[p]))),
                   !.fit = @ /\ Cardinality(store) <= SCROLL_LIMIT]
    /\ UNCHANGED <<collections, store, batch_size>>

NextConverge ==
    \/ Rerun(P1)
    \/ Probe(P1)
    \/ GetCollections(P1)
    \/ Scroll(P1)
    \/ DeletePoints(P1)
    \/ Embed(P1)
    \/ UpsertBatch(P1)
    \/ Count(P1)

SpecConverge == InitConverge /\ [][NextConverge]_vars

\* Every run so far, the one under way included, has had no failing call and
\* met a collection within the scan bound.
CleanSoFar ==
    /\ eval.clean
    /\ eval.fit
    /\ \A n \in DOMAIN R.calls : R.calls[n].ok

\* The number of runs that have returned.
RunsDone == IF R.pc = "returned" THEN nruns ELSE IF nruns = 0 THEN 0 ELSE nruns - 1

NoOrphanStored ==
    \A q \in store :
        payload_key(q.payload) \in {doc_key(eval.corpus[n]) : n \in DOMAIN eval.corpus}

\* After `bound` clean runs no stored point has a key absent from the corpus,
\* and a run after them issues no delete and no upsert.
ConvergedAfter(bound) ==
    CleanSoFar =>
        /\ RunsDone >= bound => NoOrphanStored
        /\ nruns > bound => (CallsOf(R, "delete") = <<>> /\ CallsOf(R, "upsert") = <<>>)

\* C25 (as stated): with a fixed corpus, no failing call and a collection
\* within the scan bound, M runs suffice to reach a collection without
\* orphans on which a further run issues no delete and no upsert, M being the
\* largest number of points stored for a removed document.
C25_ConvergesWithinOrphanCount == ConvergedAfter(eval.M)

\* C25: the same with max(1, M) runs: one run is needed for the additions
\* even when no document was removed.
C25_ConvergesWithinOrphanCountOrOne == ConvergedAfter(IF eval.M = 0 THEN 1 ELSE eval.M)

\* Two points of a removed document at the start, two clean runs, and a third
\* that returned without a delete or an upsert on a non-empty collection.
C25_Witness ==
    /\ CleanSoFar
    /\ eval.M = 2
    /\ nruns = 3
    /\ R.pc = "returned"
    /\ NoOrphanStored
    /\ store # {}
    /\ CallsOf(R, "delete") = <<>>
    /\ CallsOf(R, "upsert") = <<>>

\* The corpus documents of the run that had a stored point when it began.
AlreadyStored(r) == {d \in SeqToSet(r.all_docs) : PointsOf(r.store0, doc_key(d)) # {}}

\* The chunks of document d that have no stored point in S.
MissingChunks(S, d) ==
    {c \in SeqToSet(chunk_text(d.text, CHUNK_SIZE)) :
        \A q \in PointsOf(S, doc_key(d)) : q.payload.text # c}

\* The run neither embeds nor upserts a chunk of d, and d's stored points
\* stay within those stored when the run began.
LeftAsFound(r, d) ==
    /\ \A n \in DOMAIN r.calls :
          /\ r.calls[n].op = "embed" => r.calls[n].key # doc_key(d)
          /\ r.calls[n].op = "upsert" =>
                \A m \in DOMAIN r.calls[n].points :
                    payload_key(r.calls[n].points[m].payload) # doc_key(d)
    /\ PointsOf(store, doc_key(d)) \subseteq PointsOf(r.store0, doc_key(d))
    /\ MissingChunks(r.store0, d) \subseteq MissingChunks(store, d)

\* C26 (as stated): a corpus document with at least one point still stored is
\* taken as present: no chunk of it is embedded or upserted, and its missing
\* chunks stay missing.
C26_LeftoverPointHidesDocument ==
    Scanned(R) => \A d \in AlreadyStored(R) : LeftAsFound(R, d)

\* C26: the same when the collection is within the scan bound at the start of
\* the run, so that the scroll page holds the leftover point.
C26_LeftoverPointHidesDocumentInBound ==
    (Scanned(R) /\ Cardinality(R.store0) <= SCROLL_LIMIT) =>
        \A d \in AlreadyStored(R) : LeftAsFound(R, d)

\* a.txt (two chunks) was ingested, a clean sync run on another corpus deleted
\* one of its two points, and the third run, on a corpus with a.txt back in
\* it, returned with the second chunk still missing.
C26_Witness ==
    /\ nruns = 3
    /\ R.pc = "returned"
    /\ SyncCompleted(R)
    /\ R.prev.synced /\ R.prev.failed = "none" /\ ~R.prev.same
    /\ \E d \in AlreadyStored(R) :
          /\ Len(chunk_text(d.text, CHUNK_SIZE)) = 2
          /\ Cardinality(PointsOf(R.store0, doc_key(d))) = 1
          /\ Cardinality(R.store0) = 1
          /\ Cardinality(MissingChunks(store, d)) = 1
          /\ LeftAsFound(R, d)

\* The Documents of `docs` whose text is empty or all whitespace.
BlankDocs(docs) == {d \in SeqToSet(docs) : ~HasText(d.text)}

\* A blank Document selected for addition gets no embedding call and no
\* point, and a run whose additions are all blank issues no upsert call.
BlankYieldsNothing(r) ==
    /\ \A d \in BlankDocs(r.to_add) :
          /\ \A n \in DOMAIN r.calls :
                r.calls[n].op = "embed" => r.calls[n].key # doc_key(d)
          /\ \A n \in DOMAIN r.new_points :
                payload_key(r.new_points[n].payload) # doc_key(d)
    /\ BlankDocs(r.to_add) = SeqToSet(r.to_add) => CallsOf(r, "upsert") = <<>>

\* C27 (as stated): a corpus document with empty or all-whitespace text
\* yields zero points when selected for addition; on the next sync run with
\* the same corpus it is selected for addition again; when the additions are
\* all such documents the run issues no upsert call.
C27_BlankDocumentReselected ==
    AddsPlanned(R) =>
        /\ BlankYieldsNothing(R)
        /\ R.prev.same =>
              \A d \in BlankDocs(R.all_docs) :
                  doc_key(d) \in R.prev.added => d \in SeqToSet(R.to_add)

\* C27: the same, the reselection being claimed when the collection was
\* within the scan bound at the start of the run that selected the document.
C27_BlankDocumentReselectedInBound ==
    AddsPlanned(R) =>
        /\ BlankYieldsNothing(R)
        /\ (R.prev.same /\ R.prev.fit) =>
              \A d \in BlankDocs(R.all_docs) :
                  doc_key(d) \in R.prev.added => d \in SeqToSet(R.to_add)

\* The third of three runs on one corpus: the second selected an
\* all-whitespace document, and the third selects it again as its only
\* addition and returns without an upsert call.
C27_Witness ==
    /\ nruns = 3
    /\ R.pc = "returned"
    /\ SyncCompleted(R)
    /\ R.prev.same /\ R.prev.fit /\ R.prev.synced
    /\ Len(R.to_add) = 1
    /\ R.to_add[1].text = TextBlank
    /\ doc_key(R.to_add[1]) \in R.prev.added
    /\ PointsOf(store, doc_key(R.to_add[1])) = {}
    /\ store # {}
    /\ CallsOf(R, "upsert") = <<>>

\* ------------------------------------------- full ingest against first sync
\* The Documents the two paths are compared on: two texts under the key of
\* "a", a Document without text and a CSV row.
AgreeDocs ==
    { Document(TextTwo, [source |-> <<"a">>]),
      Document(TextOne, [source |-> <<"a">>]),
      Document(<<>>, [source |-> <<"b">>]),
      Document(TextOne, [source |-> <<"c">>, row_index |-> 0]) }

\* all_docs handed to both paths: any list of up to MaxAgreeDocs of them.
InitAgree ==
    /\ collections = {}
    /\ store = {}
    /\ batch_size = BATCH_SIZE
    /\ nruns = 0
    /\ run = [p \in Procs |-> IdleRun]
    /\ \E n \in 0..MaxAgreeDocs : \E docs \in [1..n -> AgreeDocs] :
          eval = [fn |-> "ingest", docs |-> docs, ingested |-> {}, synced |-> {}]

\* The creation branch of main(): a fresh collection, points for all_docs
\* with ids from 1, upserted.
EvalIngest ==
    /\ eval.fn = "ingest"
    /\ eval' = [eval EXCEPT !.fn = "sync",
                            !.ingested = Upsert({}, build_points(doc_chunks(eval.docs), 1))]
    /\ UNCHANGED <<collections, store, batch_size, nruns, run>>

\* sync_vectorstore on a collection without points: an empty scroll page.
EvalSync ==
    /\ eval.fn = "sync"
    /\ LET existing_index == index_existing(<<>>, <<>>)
           new_index == index_docs(eval.docs, <<>>)
           to_delete == plan_to_delete(existing_index, new_index)
           to_add == plan_to_add(existing_index, new_index)
           new_points == build_points(doc_chunks(to_add), first_new_id(existing_index))
       IN  eval' = [eval EXCEPT !.fn = "done",
                                !.synced = Upsert(Delete({}, to_delete), new_points)]
    /\ UNCHANGED <<collections, store, batch_size, nruns, run>>

NextAgree == EvalIngest \/ EvalSync

SpecAgree == InitAgree /\ [][NextAgree]_vars

\* No two Documents of the list have the same key.
DistinctKeys(docs) ==
    \A m, n \in DOMAIN docs : m # n => doc_key(docs[m]) # doc_key(docs[n])

\* C28 (as stated): for every list of Documents, two of the same key
\* included, full ingest into a fresh collection and a sync run on a
\* collection without points store the same points.
C28_IngestAndFirstSyncAgree ==
    eval.fn = "done" => eval.ingested = eval.synced

\* C28: the two paths store the same points, ids and payloads, for every list
\* of Documents with pairwise distinct keys.
C28_IngestAndFirstSyncAgreeOnDistinctKeys ==
    (eval.fn = "done" /\ DistinctKeys(eval.docs)) => eval.ingested = eval.synced

\* Three Documents of distinct keys, one of them without text, stored as the
\* same three points by both paths.
C28_Witness ==
    /\ eval.fn = "done"
    /\ Len(eval.docs) = 3
    /\ DistinctKeys(eval.docs)
    /\ Cardinality(eval.ingested) = 3
    /\ eval.ingested = eval.synced

\* The corpus documents of the run that have stored points, none of them in
\* the scroll page.
OutsideWindow(r) ==
    {d \in SeqToSet(r.all_docs) :
        PointsOf(r.store0, doc_key(d)) # {} /\ ScannedOf(r, doc_key(d)) = {}}

\* Over the scan bound every document outside the window is selected for
\* addition, the new ids start at seed + 1, and a completed run has embedded
\* and upserted each of its chunks.
ReaddedFrom(seed) ==
    (Scanned(R) /\ Cardinality(R.store0) > SCROLL_LIMIT) =>
        \A d \in OutsideWindow(R) :
            /\ AddsPlanned(R) => d \in SeqToSet(R.to_add)
            /\ \A n \in DOMAIN R.new_points : R.new_points[n].id = seed + n
            /\ SyncCompleted(R) =>
                  \A c \in SeqToSet(chunk_text(d.text, CHUNK_SIZE)) :
                      /\ \E n \in DOMAIN R.calls :
                            /\ R.calls[n].op = "embed"
                            /\ R.calls[n].key = doc_key(d)
                            /\ R.calls[n].text = c
                      /\ \E n \in DOMAIN R.calls :
                            /\ R.calls[n].op = "upsert"
                            /\ \E m \in DOMAIN R.calls[n].points :
                                  /\ R.calls[n].points[m].payload.text = c
                                  /\ payload_key(R.calls[n].points[m].payload) = doc_key(d)

====
